---- MODULE Spec2Model ----
(***************************************************************************)
(* Tokenizer (src/src/lexer.rs), Pratt parser (src/src/parser.rs) and      *)
(* Environment (src/src/object.rs) of the Monkey interpreter.              *)
(*                                                                         *)
(* Bytes are u8 values (0..255); the input is a sequence of bytes, so that *)
(* Rust's 0-based input.as_bytes()[i] is input[i + 1] here.  An integer    *)
(* literal's value is kept as its sequence of decimal digits without       *)
(* leading zeros (most significant first), which keeps the full 64-bit     *)
(* range exact.                                                            *)
(***************************************************************************)
EXTENDS Integers, Sequences, FiniteSets, TLC

VARIABLES
    source,         \* how the input was written: statements, each a sequence of words
    input,          \* Lexer.input, the source bytes (never changes)
    lexer,          \* Lexer.{position, read_position, character}
    panicked,       \* TRUE once a call has panicked (unwrap / unimplemented!)
    token,          \* the token the driver's last Lexer::next_token call returned
    calls,          \* number of Lexer::next_token calls the driver has made
    pc,             \* where the parser's caller stands
    current_token,  \* Parser.current_token
    peeked_token,   \* Parser.peeked_token
    errors,         \* Parser.errors
    statements,     \* Program.statements being built by parse_program
    let_name,       \* the local `name` of parse_let_statement during its skip loop
    outer,          \* the Environment of the enclosing scope
    inner,          \* the Environment created for the nested scope
    object,         \* the Object a method is called on
    result          \* what the last call made on its own returned

vars == << source, input, lexer, panicked, token, calls, pc, current_token, peeked_token,
           errors, statements, let_name, outer, inner, object, result >>

lexVars == << lexer, panicked, token, calls >>
parseVars == << pc, current_token, peeked_token, errors, statements, let_name >>
envVars == << outer, inner >>
callVars == << object, result >>

----------------------------------------------------------------------------
(* Bounds of the model *)

\* read_position keeps growing once the end is reached (lexer.rs:31); every
\* branch only asks whether it is >= input.len(), so positions past the end
\* are kept in a window of this many values.
MaxOverrun == 2

\* the driver calls next_token at most Len(input) + MaxExtraCalls times
MaxExtraCalls == 3

\* lexemes per tokenizer input
MaxLexemes == 3

\* statements per parser input
MaxStatements == 3

\* operands per generated operator chain
MaxOperands == 3

\* the parser is followed until it has collected this many errors
MaxErrors == 8

\* ReturnValue wrappers around an Object of the inputs
MaxWrap == 3

----------------------------------------------------------------------------
(* Bytes *)

Byte(c) ==
    CASE c = "NUL" -> 0   [] c = "TAB" -> 9   [] c = "LF" -> 10  [] c = "VT" -> 11
      [] c = "FF" -> 12   [] c = "CR" -> 13   [] c = " " -> 32   [] c = "!" -> 33
      [] c = "QUOTE" -> 34 [] c = "(" -> 40   [] c = ")" -> 41   [] c = "*" -> 42
      [] c = "+" -> 43    [] c = "," -> 44    [] c = "-" -> 45   [] c = "/" -> 47
      [] c = "0" -> 48    [] c = "1" -> 49    [] c = "2" -> 50   [] c = "3" -> 51
      [] c = "4" -> 52    [] c = "5" -> 53    [] c = "6" -> 54   [] c = "7" -> 55
      [] c = "8" -> 56    [] c = "9" -> 57    [] c = ":" -> 58   [] c = ";" -> 59
      [] c = "<" -> 60    [] c = "=" -> 61    [] c = ">" -> 62   [] c = "@" -> 64
      [] c = "Z" -> 90    [] c = "[" -> 91    [] c = "]" -> 93   [] c = "_" -> 95
      [] c = "a" -> 97    [] c = "b" -> 98    [] c = "c" -> 99   [] c = "e" -> 101
      [] c = "f" -> 102   [] c = "i" -> 105   [] c = "l" -> 108  [] c = "n" -> 110
      [] c = "o" -> 111
      [] c = "r" -> 114   [] c = "s" -> 115   [] c = "t" -> 116  [] c = "u" -> 117
      [] c = "x" -> 120   [] c = "y" -> 121   [] c = "{" -> 123  [] c = "}" -> 125
      [] c = "0xC3" -> 195 [] c = "0xA9" -> 169

Bytes(s) == [i \in 1..Len(s) |-> Byte(s[i])]

\* u8::is_ascii_whitespace: U+0020 SPACE, U+0009 TAB, U+000A LF, U+000C FF, U+000D CR
is_ascii_whitespace(c) == c \in {32, 9, 10, 12, 13}

is_ascii_alphabetic(c) == c \in (65..90) \cup (97..122)

is_ascii_digit(c) == c \in 48..57

MutIsLetterWithDigits(character) ==
    is_ascii_alphabetic(character) \/ character = 95 \/ is_ascii_digit(character)

is_letter(character) == is_ascii_alphabetic(character) \/ character = 95

is_number(character) == is_ascii_digit(character)

----------------------------------------------------------------------------
(* Tokens *)

Token(kind, payload) == [kind |-> kind, payload |-> payload]

Tok(kind) == Token(kind, << >>)

NoToken == Tok("None")

\* TokenKind::from_letters: the fixed keyword table
from_letters(literal) ==
    CASE literal = Bytes(<<"l", "e", "t">>) -> Tok("Let")
      [] literal = Bytes(<<"r", "e", "t", "u", "r", "n">>) -> Tok("Return")
      [] literal = Bytes(<<"f", "n">>) -> Tok("Function")
      [] literal = Bytes(<<"i", "f">>) -> Tok("If")
      [] literal = Bytes(<<"e", "l", "s", "e">>) -> Tok("Else")
      [] literal = Bytes(<<"t", "r", "u", "e">>) -> Tok("True")
      [] literal = Bytes(<<"f", "a", "l", "s", "e">>) -> Tok("False")
      [] OTHER -> Token("Ident", literal)

----------------------------------------------------------------------------
(* str::parse::<i64> on a run of decimal digits *)

I64MaxDigits == << 9, 2, 2, 3, 3, 7, 2, 0, 3, 6, 8, 5, 4, 7, 7, 5, 8, 0, 7 >>

DigitsOf(run) == [i \in 1..Len(run) |-> run[i] - 48]

RECURSIVE StripZeros(_)
StripZeros(ds) ==
    IF Len(ds) > 1 /\ ds[1] = 0 THEN StripZeros(Tail(ds)) ELSE ds

\* a > b for two digit sequences of the same length
RECURSIVE DigitsGreater(_, _)
DigitsGreater(a, b) ==
    IF a = << >> THEN FALSE
    ELSE IF a[1] # b[1] THEN a[1] > b[1]
    ELSE DigitsGreater(Tail(a), Tail(b))

ExceedsI64(ds) ==
    \/ Len(ds) > Len(I64MaxDigits)
    \/ Len(ds) = Len(I64MaxDigits) /\ DigitsGreater(ds, I64MaxDigits)

MutParseI64Saturating(run) ==
    LET ds == StripZeros(DigitsOf(run))
    IN  IF ExceedsI64(ds) THEN [ok |-> TRUE, value |-> I64MaxDigits]
        ELSE [ok |-> TRUE, value |-> ds]

\* Ok(value) or Err (PosOverflow)
ParseI64(run) ==
    LET ds == StripZeros(DigitsOf(run))
    IN  IF ExceedsI64(ds) THEN [ok |-> FALSE, value |-> << >>]
        ELSE [ok |-> TRUE, value |-> ds]

----------------------------------------------------------------------------
(* Lexer *)

Slice(start, end) == SubSeq(input, start + 1, end)

NextReadPosition(rp) ==
    IF rp >= Len(input) + MaxOverrun THEN Len(input) + 1 ELSE rp + 1

\* the lexer that read_char leaves when it reads at read_position rp
LexerAt(rp) ==
    [ character |-> IF rp >= Len(input) THEN 0 ELSE input[rp + 1],
      position |-> rp,
      read_position |-> NextReadPosition(rp) ]

read_char(lx) == LexerAt(lx.read_position)

MutPeekCharAtCursor(lx) == lx.character

peek_char(lx) ==
    IF lx.read_position >= Len(input) THEN 0 ELSE input[lx.read_position + 1]

\* Lexer::new
NewLexer ==
    read_char([position |-> 0, read_position |-> 0, character |-> 0])

RECURSIVE MutSkipControlBytes(_)
MutSkipControlBytes(lx) ==
    IF lx.character \in 1..32 THEN MutSkipControlBytes(read_char(lx)) ELSE lx

RECURSIVE skip_whitespace(_)
skip_whitespace(lx) ==
    IF is_ascii_whitespace(lx.character) THEN skip_whitespace(read_char(lx)) ELSE lx

\* `while is_letter(self.character) { self.read_char() }` from position p: the
\* position where it stops (a letter is never at or past the end of the input)
RECURSIVE WhileLetter(_)
WhileLetter(p) ==
    IF p < Len(input) /\ is_letter(input[p + 1]) THEN WhileLetter(p + 1) ELSE p

read_identifier(lx) ==
    [lexer |-> LexerAt(WhileLetter(lx.position)),
     literal |-> Slice(lx.position, WhileLetter(lx.position))]

\* `while is_number(self.character) { self.read_char() }` from position p
RECURSIVE WhileNumber(_)
WhileNumber(p) ==
    IF p < Len(input) /\ is_number(input[p + 1]) THEN WhileNumber(p + 1) ELSE p

read_number(lx) ==
    [lexer |-> LexerAt(WhileNumber(lx.position)),
     number |-> ParseI64(Slice(lx.position, WhileNumber(lx.position)))]

RECURSIVE ReadString(_)
ReadString(lx) ==
    LET nx == read_char(lx)
    IN  IF nx.character = 34 \/ nx.character = 0 THEN nx ELSE ReadString(nx)

Returned(lx, tok) == [lexer |-> lx, token |-> tok, panicked |-> FALSE]

SingleByteKind(c) ==
    CASE c = 0 -> "Eof"
      [] c = 43 -> "Plus"      [] c = 45 -> "Minus"
      [] c = 42 -> "Asterisk"  [] c = 47 -> "Slash"
      [] c = 60 -> "LessThan"  [] c = 62 -> "GreaterThan"
      [] c = 44 -> "Comma"     [] c = 58 -> "Colon"
      [] c = 59 -> "Semicolon"
      [] c = 40 -> "Lparen"    [] c = 41 -> "Rparen"
      [] c = 91 -> "Lbracket"  [] c = 93 -> "Rbracket"
      [] c = 123 -> "Lbrace"   [] c = 125 -> "Rbrace"

SingleBytes == {0, 43, 45, 42, 47, 60, 62, 44, 58, 59, 40, 41, 91, 93, 123, 125}

\* Lexer::next_token: the lexer after the call, the token returned, or a panic
next_token(lx0) ==
    LET lx == skip_whitespace(lx0)
        c == lx.character
    IN  CASE c \in SingleBytes -> Returned(read_char(lx), Tok(SingleByteKind(c)))
          [] c = 61 ->
                IF peek_char(lx) = 61
                THEN Returned(read_char(read_char(lx)), Tok("Equal"))
                ELSE Returned(read_char(lx), Tok("Assign"))
          [] c = 33 ->
                IF peek_char(lx) = 61
                THEN Returned(read_char(read_char(lx)), Tok("NotEqual"))
                ELSE Returned(read_char(lx), Tok("Bang"))
          [] c = 34 ->
                LET start == lx.position + 1
                    at == ReadString(lx)
                IN  Returned(read_char(at), Token("String", Slice(start, at.position)))
          [] OTHER ->
                IF is_letter(c)
                THEN LET r == read_identifier(lx)
                     IN  Returned(r.lexer, from_letters(r.literal))
                ELSE IF is_number(c)
                THEN LET r == read_number(lx)
                     IN  IF r.number.ok
                         THEN Returned(r.lexer, Token("Int", r.number.value))
                         ELSE [lexer |-> r.lexer, token |-> NoToken, panicked |-> TRUE]
                ELSE Returned(lx, Tok("Illegal"))

----------------------------------------------------------------------------
(* Environment (object.rs) *)

Some(v) == << v >>

None == << >>

\* Environment::new
NewEnvironment == [store |-> [n \in {} |-> None]]

\* Environment::get
get(env, name) ==
    IF name \in DOMAIN env.store THEN Some(env.store[name]) ELSE None

\* Environment::set (HashMap::insert replaces an existing binding)
set(env, name, value) ==
    [store |-> [n \in (DOMAIN env.store) \cup {name} |->
                   IF n = name THEN value ELSE env.store[n]]]

----------------------------------------------------------------------------
(* Parser *)

\* Precedence, in declaration order (derive(PartialOrd))
PrecedenceLevel(p) ==
    CASE p = "Lowest" -> 0 [] p = "Equals" -> 1 [] p = "LessGreater" -> 2
      [] p = "Sum" -> 3    [] p = "Product" -> 4 [] p = "Prefix" -> 5
      [] p = "Call" -> 6

MutPrecedenceOfSumAboveProduct(kind) ==
    CASE kind = "Equal" -> "Equals"
      [] kind = "NotEqual" -> "Equals"
      [] kind = "LessThan" -> "LessGreater"
      [] kind = "GreaterThan" -> "LessGreater"
      [] kind = "Plus" -> "Product"
      [] kind = "Minus" -> "Product"
      [] kind = "Slash" -> "Sum"
      [] kind = "Asterisk" -> "Sum"
      [] kind = "Lparen" -> "Call"
      [] OTHER -> "Lowest"

\* impl From<&TokenKind> for Precedence
PrecedenceOf(kind) ==
    CASE kind = "Equal" -> "Equals"
      [] kind = "NotEqual" -> "Equals"
      [] kind = "LessThan" -> "LessGreater"
      [] kind = "GreaterThan" -> "LessGreater"
      [] kind = "Plus" -> "Sum"
      [] kind = "Minus" -> "Sum"
      [] kind = "Slash" -> "Product"
      [] kind = "Asterisk" -> "Product"
      [] kind = "Lparen" -> "Call"
      [] OTHER -> "Lowest"

\* the parser's fields as one value: [lexer, current_token, peeked_token, panicked]
ParserState ==
    [lexer |-> lexer, current_token |-> current_token, peeked_token |-> peeked_token,
     panicked |-> panicked]

\* std::mem::replace(&mut self.peeked_token, <r>) and the assignment to
\* current_token, for the result r of the lexer's next_token
Shift(ps, r) ==
    IF r.panicked
    THEN [ps EXCEPT !.lexer = r.lexer, !.panicked = TRUE]
    ELSE [lexer |-> r.lexer, current_token |-> ps.peeked_token,
          peeked_token |-> r.token, panicked |-> FALSE]

\* Parser::next_token (nothing runs after a panic)
parser_next_token(ps) ==
    IF ps.panicked THEN ps ELSE Shift(ps, next_token(ps.lexer))

peek_token_is(ps, kind) == ps.peeked_token.kind = kind

current_token_is(ps, kind) == ps.current_token.kind = kind

peek_precedence(ps) == PrecedenceOf(ps.peeked_token.kind)

current_precedence(ps) == PrecedenceOf(ps.current_token.kind)

has_parse_prefix_fn(kind) == kind \in {"Ident", "Int", "Bang", "Minus"}

has_parse_infix_fn(kind) ==
    kind \in {"Plus", "Minus", "Asterisk", "Slash", "LessThan", "GreaterThan", "Equal",
              "NotEqual"}

\* Results: Ok(value), Err(message), or a panic that unwinds through every caller
Ok(ps, v) == [status |-> "Ok", ps |-> ps, val |-> v]

Err(ps, e) == [status |-> "Err", ps |-> ps, val |-> e]

Panic(ps) == [status |-> "Panic", ps |-> [ps EXCEPT !.panicked = TRUE], val |-> << >>]

\* an error message: the format string's text and the token it prints
Message(text, tok) == [text |-> text, got |-> tok]

\* Expressions
Placeholder == [expr |-> "Placeholder"]

Identifier(value) == [expr |-> "Identifier", value |-> value]

Integer(value) == [expr |-> "Integer", value |-> value]

Prefix(op, right) == [expr |-> "Prefix", op |-> op, right |-> right]

Infix(left, op, right) == [expr |-> "Infix", left |-> left, op |-> op, right |-> right]

\* Statements
LetStatement(name, value) == [stmt |-> "LetStatement", name |-> name, value |-> value]

ReturnStatement(value) == [stmt |-> "ReturnStatement", value |-> value]

ExpressionStatement(value) == [stmt |-> "ExpressionStatement", value |-> value]

MutLoopWhileNotGreater(precedence, ps) ==
    /\ ~peek_token_is(ps, "Semicolon")
    /\ PrecedenceLevel(precedence) <= PrecedenceLevel(peek_precedence(ps))

\* the precedence parse_prefix passes for the operand of a unary operator
PrefixOperand(kind) == "Prefix"

\* the condition of parse_expression's while loop
InfixLoopContinues(precedence, ps) ==
    /\ ~peek_token_is(ps, "Semicolon")
    /\ PrecedenceLevel(precedence) < PrecedenceLevel(peek_precedence(ps))

\* Ok(Expression::Prefix(kind, Box::new(r?)))
WrapPrefix(kind, r) ==
    IF r.status = "Ok" THEN Ok(r.ps, Prefix(kind, r.val)) ELSE r

\* Ok(Expression::Infix(Box::new(left), token, Box::new(r?)))
WrapInfix(left, tok, r) ==
    IF r.status = "Ok" THEN Ok(r.ps, Infix(left, tok, r.val)) ELSE r

\* parse_expression, parse_prefix, parse_infix and the while loop of
\* parse_expression call one another; they are the cases of one recursive
\* operator, selected by fn.  `precedence` is read by parse_expression and the
\* loop; `arg` is parse_infix's `left`, the loop's `expression`, and for
\* "continue" the result of the call the loop goes on from (`?` returns an Err).
\* A panic in next_token unwinds through every caller.
RECURSIVE Parse(_, _, _, _)
Parse(fn, ps, precedence, arg) ==
    IF ps.panicked THEN Panic(ps)
    ELSE CASE fn = "parse_expression" ->
                IF ~has_parse_prefix_fn(ps.current_token.kind)
                THEN Err(ps, Message("Expected a prefix. Got: {}", ps.current_token))
                ELSE Parse("continue", ps, precedence,
                           Parse("parse_prefix", ps, precedence, arg))
           [] fn = "continue" ->
                IF arg.status = "Ok" THEN Parse("while", arg.ps, precedence, arg.val)
                ELSE arg
           [] fn = "while" ->
                IF InfixLoopContinues(precedence, ps)
                THEN IF ~has_parse_infix_fn(ps.peeked_token.kind) THEN Ok(ps, arg)
                     ELSE Parse("continue", ps, precedence,
                                Parse("parse_infix", parser_next_token(ps), precedence, arg))
                ELSE Ok(ps, arg)
           [] fn = "parse_prefix" ->
                CASE ps.current_token.kind = "Ident" ->
                        Ok(ps, Identifier(ps.current_token.payload))
                  [] ps.current_token.kind = "Int" ->
                        Ok(ps, Integer(ps.current_token.payload))
                  [] ps.current_token.kind \in {"Minus", "Bang"} ->
                        WrapPrefix(ps.current_token.kind,
                                   Parse("parse_expression", parser_next_token(ps),
                                         PrefixOperand(ps.current_token.kind), arg))
                  [] OTHER -> Panic(ps)
           [] fn = "parse_infix" ->
                WrapInfix(arg, ps.current_token.kind,
                          Parse("parse_expression", parser_next_token(ps),
                                current_precedence(ps), arg))

parse_expression(ps, precedence) == Parse("parse_expression", ps, precedence, << >>)

parse_prefix(ps) == Parse("parse_prefix", ps, "Lowest", << >>)

parse_infix(ps, left) == Parse("parse_infix", ps, "Lowest", left)

\* the rest of parse_expression_statement, for the result r of parse_expression
MutExpressionStatementLeavesSemicolon(r) ==
    IF r.status # "Ok" THEN r ELSE Ok(r.ps, ExpressionStatement(r.val))

\* parse_expression_statement after `self.parse_expression(precedence)?` (lines 154-158)
ExpressionStatementOf(r) ==
    IF r.status # "Ok" THEN r
    ELSE IF peek_token_is(r.ps, "Semicolon")
    THEN Ok(parser_next_token(r.ps), ExpressionStatement(r.val))
    ELSE Ok(r.ps, ExpressionStatement(r.val))

parse_expression_statement(ps, precedence) ==
    ExpressionStatementOf(parse_expression(ps, precedence))

\* format!("expected next token to be {kind}, got: {:?}", self.peeked_token)
ExpectMessage(kind, tok) ==
    [text |-> "expected next token to be {kind}, got: {:?}", expected |-> kind, got |-> tok]

\* expect_peek; a panic of the lexer unwinds through it
expect_peek(ps, kind) ==
    IF ~peek_token_is(ps, kind)
    THEN Err(ps, ExpectMessage(kind, ps.peeked_token))
    ELSE IF parser_next_token(ps).panicked THEN Panic(parser_next_token(ps))
    ELSE Ok(parser_next_token(ps), << >>)

\* parse_let_statement after its first next_token (lines 124-129), n the parser then
LetAssignCheck(name, n) ==
    IF n.panicked THEN Panic(n)
    ELSE IF n.peeked_token.kind # "Assign"
    THEN Err(n, Message("expected TokenKind to be Assign, got {:?}", n.peeked_token))
    ELSE Ok(n, name)

MutLetStatementHeadNameFromCurrent(ps) ==
    IF ps.peeked_token.kind # "Ident"
    THEN Err(ps, Message("expected TokenKind to be Identifier(_), got: {:?}",
                         ps.peeked_token))
    ELSE LetAssignCheck(ps.current_token.payload, parser_next_token(ps))

\* parse_let_statement up to its skip loop (lines 117-129): Ok carries `name`
LetStatementHead(ps) ==
    IF ps.peeked_token.kind # "Ident"
    THEN Err(ps, Message("expected TokenKind to be Identifier(_), got: {:?}",
                         ps.peeked_token))
    ELSE LetAssignCheck(ps.peeked_token.payload, parser_next_token(ps))

\* parser_statement's match on the result r, then the next_token that ends the
\* iteration of parse_program: the parser, the error and the statement pushed
Iteration(r) ==
    [ ps |-> IF r.status = "Panic" THEN r.ps ELSE parser_next_token(r.ps),
      errors |-> IF r.status = "Err" THEN << r.val >> ELSE << >>,
      statements |-> IF r.status = "Ok" THEN << r.val >> ELSE << >> ]

----------------------------------------------------------------------------
(* Inputs *)

RECURSIVE ConcatsUpTo(_, _)
ConcatsUpTo(L, n) ==
    IF n = 0 THEN {<< >>}
    ELSE LET shorter == ConcatsUpTo(L, n - 1)
         IN  shorter \cup {s \o l : s \in shorter, l \in L}

AsBytes(ds) == [i \in 1..Len(ds) |-> ds[i] + 48]

\* i64::MAX + 1 = 9223372036854775808
I64MaxPlusOneDigits == [I64MaxDigits EXCEPT ![19] = 8]

LexLexemes ==
    {Bytes(<<c>>) : c \in {"NUL", "TAB", "LF", "VT", "FF", "CR", " ", "a", "_", "0", "1",
                           "=", "!", "QUOTE", "@", ";"}}
    \cup {Bytes(<<"l", "e", "t">>), Bytes(<<"f", "n">>), Bytes(<<"0xC3", "0xA9">>),
          AsBytes(I64MaxDigits), AsBytes(I64MaxPlusOneDigits)}

LexInputs == ConcatsUpTo(LexLexemes, MaxLexemes)

\* the bytes of a word of the parser inputs
WordBytes(w) ==
    CASE w = "let" -> Bytes(<<"l", "e", "t">>)
      [] w = "return" -> Bytes(<<"r", "e", "t", "u", "r", "n">>)
      [] w = "foobar" -> Bytes(<<"f", "o", "o", "b", "a", "r">>)
      [] w = "10" -> Bytes(<<"1", "0">>)
      [] w = "838383" -> Bytes(<<"8", "3", "8", "3", "8", "3">>)
      [] w = "-a" -> Bytes(<<"-", "a">>)
      [] w = "!a" -> Bytes(<<"!", "a">>)
      [] w = "!-a" -> Bytes(<<"!", "-", "a">>)
      [] w = "==" -> Bytes(<<"=", "=">>)
      [] w = "!=" -> Bytes(<<"!", "=">>)
      [] w = "9223372036854775808" -> AsBytes(I64MaxPlusOneDigits)
      [] OTHER -> Bytes(<<w>>)

\* the words of a statement separated by single spaces, a space after the last
RECURSIVE SpacedWords(_)
SpacedWords(ws) ==
    IF ws = << >> THEN << >>
    ELSE WordBytes(Head(ws)) \o << 32 >> \o SpacedWords(Tail(ws))

RECURSIVE Render(_)
Render(src) ==
    IF src = << >> THEN << >> ELSE SpacedWords(Head(src)) \o Render(Tail(src))

WellFormedLets ==
    { <<"let", "x", "=", "5", ";">>,
      <<"let", "y", "=", "10", ";">>,
      <<"let", "foobar", "=", "-a", "+", "838383", ";">> }

MalformedLets ==
    { <<"let", "=", "5", ";">>, <<"let", "x", "5", ";">> }

TerminatingStatements ==
    WellFormedLets \cup MalformedLets
      \cup { <<"return", "5", ";">>, <<"5", ";">>, <<"x">>, <<"=">>, <<"5", "(">> }

UnterminatedStatements == { <<"let", "x", "=", "5">>, <<"return", "5">> }

\* an unrecognized byte; an integer literal one above i64::MAX
IllegalStatements == { <<"@">>, <<"9223372036854775808", ";">> }

OperandWords == {"a", "5", "-a", "!a"}

OperatorWords == {"+", "-", "*", "/", "<", ">", "==", "!="}

\* x1 op1 x2 ... xn, n <= MaxOperands
RECURSIVE Chains(_)
Chains(n) ==
    IF n = 1 THEN {<<w>> : w \in OperandWords}
    ELSE LET shorter == Chains(n - 1)
         IN  shorter \cup {c \o <<op, w>> : c \in {d \in shorter : Len(d) = 2 * n - 3},
                                            op \in OperatorWords, w \in OperandWords}

ExpressionSources == {<<c>> : c \in Chains(MaxOperands) \cup {<<"!-a">>}}

ParserSources(stmts) == ConcatsUpTo({<<st>> : st \in stmts}, MaxStatements)

\* expressions written one after the other as statements
SeparableExpressions ==
    { <<"5">>, <<"-a">>, <<"a", "+", "5">>, <<"-a", "*", "5">>,
      <<"a", "+", "5", "*", "a">>, <<"a", "*", "5", "+", "!a">> }

\* e1 ; e2 ; ... en, with or without a `;` after en
SeparatedSources ==
    { front \o << last >> :
        front \in ConcatsUpTo({<< e \o <<";">> >> : e \in SeparableExpressions},
                              MaxStatements - 1),
        last \in SeparableExpressions \cup {e \o <<";">> : e \in SeparableExpressions} }

ParserIdle ==
    /\ current_token = Tok("Illegal")
    /\ peeked_token = Tok("Illegal")
    /\ errors = << >>
    /\ statements = << >>
    /\ let_name = << >>

LexerIdle ==
    /\ token = NoToken
    /\ calls = 0

EnvIdle ==
    /\ outer = NewEnvironment
    /\ inner = NewEnvironment

NoObject == [kind |-> "None"]

NoResult == << >>

CallIdle ==
    /\ object = NoObject
    /\ result = NoResult

----------------------------------------------------------------------------
(* The tokenizer driven on its own: a caller pulling tokens (lexer.rs:143-151) *)

LexInit ==
    /\ source = << >>
    /\ input \in LexInputs
    /\ lexer = NewLexer
    /\ panicked = FALSE
    /\ LexerIdle
    /\ pc = "lexing"
    /\ ParserIdle
    /\ EnvIdle
    /\ CallIdle

LexerNextToken ==
    /\ pc = "lexing"
    /\ ~panicked
    /\ calls < Len(input) + MaxExtraCalls
    /\ LET r == next_token(lexer)
       IN  /\ lexer' = r.lexer
           /\ token' = r.token
           /\ panicked' = r.panicked
    /\ calls' = calls + 1
    /\ UNCHANGED << source, input, parseVars, envVars, callVars >>

LexNext == LexerNextToken

LexSpec == LexInit /\ [][LexNext]_vars

----------------------------------------------------------------------------
(* Parser::new followed by parse_program (parser.rs:44-68).  The skip loops of
   parse_let_statement and parse_return_statement take one step per iteration. *)

ParseInit ==
    /\ source = << >>
    /\ input = << >>
    /\ lexer = NewLexer
    /\ panicked = FALSE
    /\ LexerIdle
    /\ pc = "start"
    /\ ParserIdle
    /\ EnvIdle
    /\ CallIdle

AllSources ==
    ParserSources(TerminatingStatements \cup UnterminatedStatements \cup IllegalStatements)
      \cup ExpressionSources \cup SeparatedSources

\* inputs without unrecognized bytes and without overflowing literals
LegalSources ==
    ParserSources(TerminatingStatements \cup UnterminatedStatements)
      \cup ExpressionSources \cup SeparatedSources

\* Lexer::new(input), for an input written as one of sources
LexerNew(sources) ==
    /\ pc = "start"
    /\ \E src \in sources :
          /\ source' = src
          /\ input' = Render(src)
    /\ lexer' = NewLexer'
    /\ pc' = "new"
    /\ UNCHANGED << panicked, token, calls, current_token, peeked_token, errors,
                    statements, let_name, envVars, callVars >>

SetParser(ps) ==
    /\ lexer' = ps.lexer
    /\ current_token' = ps.current_token
    /\ peeked_token' = ps.peeked_token
    /\ panicked' = ps.panicked

\* the parser goes on at `next`, unless it has panicked
Goto(ps, next) ==
    /\ SetParser(ps)
    /\ pc' = IF ps.panicked THEN "panic" ELSE next

\* an iteration of parse_program has ended with outcome it
EndIteration(it) ==
    /\ Goto(it.ps, "program")
    /\ errors' = errors \o it.errors
    /\ statements' = statements \o it.statements

\* Parser::new
ParserNew ==
    /\ pc = "new"
    /\ Goto(parser_next_token(parser_next_token(ParserState)), "program")
    /\ UNCHANGED << source, input, token, calls, errors, statements, let_name, envVars, callVars >>

\* parse_program: the loop's condition fails
ProgramEnd ==
    /\ pc = "program"
    /\ current_token_is(ParserState, "Eof")
    /\ pc' = "done"
    /\ UNCHANGED << source, input, lexVars, current_token, peeked_token, errors,
                    statements, let_name, envVars, callVars >>

\* parse_let_statement has reached its skip loop with result r
EnterLetSkip(r) ==
    /\ Goto(r.ps, "let_skip")
    /\ let_name' = r.val
    /\ UNCHANGED << errors, statements >>

\* one iteration of parse_program on `let`: parse_let_statement up to its skip
\* loop; if it returns early, parser_statement pushes the error and the
\* iteration ends
LetStatementBegin ==
    /\ pc = "program"
    /\ current_token_is(ParserState, "Let")
    /\ Len(errors) < MaxErrors
    /\ IF LetStatementHead(ParserState).status = "Ok"
       THEN EnterLetSkip(LetStatementHead(ParserState))
       ELSE EndIteration(Iteration(LetStatementHead(ParserState))) /\ UNCHANGED let_name
    /\ UNCHANGED << source, input, token, calls, envVars, callVars >>

\* one iteration of parse_program on `return`: parse_return_statement up to
\* its skip loop
ReturnStatementBegin ==
    /\ pc = "program"
    /\ current_token_is(ParserState, "Return")
    /\ Goto(parser_next_token(ParserState), "return_skip")
    /\ UNCHANGED << source, input, token, calls, errors, statements, let_name, envVars, callVars >>

\* one iteration of `while !self.current_token_is(&TokenKind::Semicolon)`
SkipToSemicolon ==
    /\ pc \in {"let_skip", "return_skip"}
    /\ ~current_token_is(ParserState, "Semicolon")
    /\ Goto(parser_next_token(ParserState), pc)
    /\ UNCHANGED << source, input, token, calls, errors, statements, let_name, envVars, callVars >>

\* the skip loop ends: the statement is returned and pushed, and the iteration
\* of parse_program ends
StatementEnd ==
    /\ pc \in {"let_skip", "return_skip"}
    /\ current_token_is(ParserState, "Semicolon")
    /\ EndIteration(Iteration(Ok(ParserState,
                                 IF pc = "let_skip"
                                 THEN LetStatement(let_name, Placeholder)
                                 ELSE ReturnStatement(Placeholder))))
    /\ let_name' = << >>
    /\ UNCHANGED << source, input, token, calls, envVars, callVars >>

\* one iteration of parse_program on any other token: an expression statement
ExpressionStatementStep ==
    /\ pc = "program"
    /\ current_token.kind \notin {"Let", "Return", "Eof"}
    /\ Len(errors) < MaxErrors
    /\ EndIteration(Iteration(parse_expression_statement(ParserState, "Lowest")))
    /\ UNCHANGED << source, input, token, calls, let_name, envVars, callVars >>

ParseSteps ==
    \/ ParserNew
    \/ ProgramEnd
    \/ LetStatementBegin
    \/ ReturnStatementBegin
    \/ SkipToSemicolon
    \/ StatementEnd
    \/ ExpressionStatementStep

ParseNext == LexerNew(AllSources) \/ ParseSteps

ParseSpec == ParseInit /\ [][ParseNext]_vars

LegalParseNext == LexerNew(LegalSources) \/ ParseSteps

\* the program is sequential: a skip loop that can take its next step, or end,
\* does so
FairParseSpec ==
    /\ ParseInit
    /\ [][LegalParseNext]_vars
    /\ WF_vars(SkipToSemicolon)
    /\ WF_vars(StatementEnd)

----------------------------------------------------------------------------
(* Environments of two nested scopes.  Environment::new is the only
   constructor; the struct has no field for an enclosing environment. *)

Names == {"x", "y"}

Objects ==
    { [kind |-> "Integer", value |-> 0], [kind |-> "Boolean", value |-> FALSE],
      [kind |-> "Null"] }

EnvInit ==
    /\ source = << >>
    /\ input = << >>
    /\ lexer = NewLexer
    /\ panicked = FALSE
    /\ LexerIdle
    /\ pc = "env_outer"
    /\ ParserIdle
    /\ EnvIdle
    /\ CallIdle

\* a `let` evaluated in the enclosing scope
SetOuter ==
    /\ pc = "env_outer"
    /\ \E name \in Names, value \in Objects : outer' = set(outer, name, value)
    /\ UNCHANGED << source, input, lexVars, parseVars, inner, callVars >>

\* the nested scope is entered with a new Environment
EnterScope ==
    /\ pc = "env_outer"
    /\ inner' = NewEnvironment
    /\ pc' = "env_inner"
    /\ UNCHANGED << source, input, lexVars, current_token, peeked_token, errors,
                    statements, let_name, outer, callVars >>

\* a `let` evaluated in the nested scope
SetInner ==
    /\ pc = "env_inner"
    /\ \E name \in Names, value \in Objects : inner' = set(inner, name, value)
    /\ UNCHANGED << source, input, lexVars, parseVars, outer, callVars >>

\* the nested scope ends and its Environment is dropped
LeaveScope ==
    /\ pc = "env_inner"
    /\ inner' = NewEnvironment
    /\ pc' = "env_outer"
    /\ UNCHANGED << source, input, lexVars, current_token, peeked_token, errors,
                    statements, let_name, outer, callVars >>

EnvNext == SetOuter \/ EnterScope \/ SetInner \/ LeaveScope

EnvSpec == EnvInit /\ [][EnvNext]_vars

----------------------------------------------------------------------------
(* Parser::new followed by calls of expect_peek (parser.rs:104-114), each with
   a token kind that carries no payload *)

ExpectedKinds ==
    {"Eof", "Illegal", "Assign", "Semicolon", "Plus", "Minus", "Asterisk", "Bang", "Let",
     "Return"}

\* self.expect_peek(&kind); result is what the call returned, with its argument
ExpectPeek ==
    /\ pc = "program"
    /\ \E kind \in ExpectedKinds :
          /\ Goto(expect_peek(ParserState, kind).ps, "program")
          /\ result' = [kind |-> kind,
                        status |-> expect_peek(ParserState, kind).status,
                        val |-> expect_peek(ParserState, kind).val]
    /\ UNCHANGED << source, input, token, calls, errors, statements, let_name, envVars,
                    object >>

ExpectNext == LexerNew(AllSources) \/ ParserNew \/ ExpectPeek

ExpectSpec == ParseInit /\ [][ExpectNext]_vars

----------------------------------------------------------------------------
(* Object (object.rs:12-19).  The Env a Function closes over is declared in
   the evaluator; no method modelled here reads it. *)

ObjectNull == [kind |-> "Null"]

ObjectError(message) == [kind |-> "Error", message |-> message]

ObjectBoolean(b) == [kind |-> "Boolean", value |-> b]

ObjectInteger(int) == [kind |-> "Integer", value |-> int]

ObjectReturnValue(value) == [kind |-> "ReturnValue", value |-> value]

ObjectFunction(params, body) == [kind |-> "Function", params |-> params, body |-> body]

MutIsTruthyZeroIsFalse(self) ==
    ~(self = ObjectBoolean(FALSE) \/ self = ObjectNull \/ self = ObjectInteger(0))

\* Object::is_truthy: !matches!(self, Object::Boolean(false) | Object::Null)
is_truthy(self) == ~(self = ObjectBoolean(FALSE) \/ self = ObjectNull)

\* Object::is_error
is_error(self) == self.kind = "Error"

PlainObjects ==
    {ObjectNull, ObjectError(<< >>), ObjectError(<< 101 >>)}
      \cup {ObjectBoolean(b) : b \in BOOLEAN}
      \cup {ObjectInteger(int) : int \in -2..2}
      \cup {ObjectFunction(params, body) :
               params \in {<< >>, << Identifier(<< 120 >>) >>},
               body \in {ExpressionStatement(Placeholder), ReturnStatement(Placeholder)}}

\* the objects reached by wrapping a plain one in at most n ReturnValues
RECURSIVE Wrapped(_)
Wrapped(n) ==
    IF n = 0 THEN PlainObjects
    ELSE Wrapped(n - 1) \cup {ObjectReturnValue(value) : value \in Wrapped(n - 1)}

TruthInit ==
    /\ source = << >>
    /\ input = << >>
    /\ lexer = NewLexer
    /\ panicked = FALSE
    /\ LexerIdle
    /\ pc = "object"
    /\ ParserIdle
    /\ EnvIdle
    /\ CallIdle

\* an Object comes to be the value of a condition
Evaluated ==
    /\ pc = "object"
    /\ object' \in Wrapped(MaxWrap)
    /\ result' = NoResult
    /\ pc' = "is_truthy"
    /\ UNCHANGED << source, input, lexVars, current_token, peeked_token, errors,
                    statements, let_name, envVars >>

\* object.is_truthy()
IsTruthy ==
    /\ pc = "is_truthy"
    /\ result' = is_truthy(object)
    /\ pc' = "object"
    /\ UNCHANGED << source, input, lexVars, current_token, peeked_token, errors,
                    statements, let_name, envVars, object >>

TruthNext == Evaluated \/ IsTruthy

TruthSpec == TruthInit /\ [][TruthNext]_vars

----------------------------------------------------------------------------
(* Vocabulary of the tokenizer properties, stated over the input bytes *)

LetterOrUnderscore == (65..90) \cup (97..122) \cup {95}

Digits == 48..57

\* + - * / < > = ! , ; : ( ) [ ] { }
Punctuation == {43, 45, 42, 47, 60, 62, 61, 33, 44, 59, 58, 40, 41, 91, 93, 123, 125}

KeywordKinds == {"Let", "Return", "Function", "If", "Else", "True", "False"}

\* the byte at 0-based index i, or -1 at and past the end of the input
ByteAt(i) == IF i >= Len(input) THEN -1 ELSE input[i + 1]

\* the first index at or after the cursor whose byte is not in ws
FirstOutside(ws) ==
    LET S == {i \in lexer.position..(Len(input) - 1) : input[i + 1] \notin ws}
    IN  IF S = {} THEN Len(input) ELSE CHOOSE i \in S : \A j \in S : i <= j

\* the end (exclusive) of the maximal run of bytes of S that starts at index start
RunEnd(start, S) ==
    CHOOSE j \in start..Len(input) :
        /\ \A k \in start..(j - 1) : input[k + 1] \in S
        /\ j = Len(input) \/ input[j + 1] \notin S

\* the token kinds a token that starts with byte c may have; eof is the set of
\* bytes that stand for end-of-input
KindsFor(c, eof) ==
    IF c \in eof THEN {"Eof"}
    ELSE IF c \in LetterOrUnderscore THEN KeywordKinds \cup {"Ident"}
    ELSE IF c \in Digits THEN {"Int"}
    ELSE IF c = 34 THEN {"String"}
    ELSE IF c \in Punctuation
         THEN {"Plus", "Minus", "Asterisk", "Slash", "LessThan", "GreaterThan", "Assign",
               "Equal", "Bang", "NotEqual", "Comma", "Semicolon", "Colon", "Lparen",
               "Rparen", "Lbracket", "Rbracket", "Lbrace", "Rbrace"}
    ELSE {"Illegal"}

\* after the call, the token is the one that starts at the first byte outside ws
TokenStartsAfter(ws, eof) ==
    LET c == ByteAt(FirstOutside(ws))
    IN  \/ token'.kind \in KindsFor(c, eof) /\ ~panicked'
        \/ c \in Digits /\ panicked'

----------------------------------------------------------------------------
(* C3: once next_token has returned Eof, every later call returns Eof and none
   fails. *)
EofIsTerminal ==
    [][token.kind = "Eof" => (token'.kind = "Eof" /\ ~panicked')]_vars

----------------------------------------------------------------------------
(* C8 as stated: the only bytes next_token consumes without making them part of
   a token are space, tab, newline and carriage return, and any other byte that
   is not a letter, underscore, digit, quote or listed punctuation yields an
   Illegal token. *)
OnlyFourWhitespaceBytesDropped ==
    [][LexerNextToken => TokenStartsAfter({32, 9, 10, 13}, {-1})]_vars

(* C8 amended: the only bytes next_token consumes without making them part of
   a token are the five ASCII whitespace bytes (space, tab, newline, form feed,
   carriage return); a byte 0 yields Eof, as the end of the input does; every
   other byte that is not a letter, underscore, digit, quote or listed
   punctuation yields Illegal. *)
OnlyAsciiWhitespaceDropped ==
    [][LexerNextToken => TokenStartsAfter({32, 9, 10, 12, 13}, {-1, 0})]_vars

\* whitespace was skipped and the vertical tab after it was reported as Illegal
IllegalAfterWhitespace ==
    /\ token.kind = "Illegal"
    /\ lexer.character = 11
    /\ lexer.position > 0
    /\ input[lexer.position] \in {32, 9, 10, 12, 13}

----------------------------------------------------------------------------
\* the keyword token for the run, or the identifier carrying exactly the run
WordToken(run) ==
    CASE run = << 108, 101, 116 >> -> Tok("Let")
      [] run = << 102, 110 >> -> Tok("Function")
      [] run = << 105, 102 >> -> Tok("If")
      [] run = << 101, 108, 115, 101 >> -> Tok("Else")
      [] run = << 116, 114, 117, 101 >> -> Tok("True")
      [] run = << 102, 97, 108, 115, 101 >> -> Tok("False")
      [] run = << 114, 101, 116, 117, 114, 110 >> -> Tok("Return")
      [] OTHER -> Token("Ident", run)

\* the call returns one token for the whole maximal run of bytes of S at the cursor
OneTokenForRun(S) ==
    LET end == RunEnd(lexer.position, S)
    IN  /\ token' = WordToken(SubSeq(input, lexer.position + 1, end))
        /\ lexer'.position = end
        /\ ~panicked'

(* C9 as stated: at a letter or underscore, next_token consumes the maximal run
   of letters, digits and underscores and returns one keyword or Ident token
   for the whole run. *)
WordIsRunOfLettersDigitsUnderscores ==
    [][(LexerNextToken /\ lexer.character \in LetterOrUnderscore)
          => OneTokenForRun(LetterOrUnderscore \cup Digits)]_vars

(* C9 amended: at a letter or underscore, next_token consumes the maximal run
   of letters and underscores (a digit ends the run) and returns the keyword
   token if the run is a keyword, otherwise Ident with exactly the run. *)
WordIsRunOfLettersUnderscores ==
    [][(LexerNextToken /\ lexer.character \in LetterOrUnderscore)
          => OneTokenForRun(LetterOrUnderscore)]_vars

\* an identifier was returned and the run ended at a digit
IdentStoppedAtDigit ==
    /\ token.kind = "Ident"
    /\ lexer.character \in Digits
    /\ token.payload = SubSeq(input, lexer.position - Len(token.payload) + 1, lexer.position)

----------------------------------------------------------------------------
\* v is the decimal numeral, without leading zeros, of the digit bytes run
\* after dropping its first k bytes, all of them zeros
NumeralOf(run, k) == [i \in 1..(Len(run) - k) |-> run[k + i] - 48]

DropsLeadingZeros(run, k) ==
    /\ \A i \in 1..k : run[i] = 48
    /\ run[k + 1] # 48 \/ k + 1 = Len(run)

FitsI64(v) ==
    \/ Len(v) < 19
    \/ /\ Len(v) = 19
       /\ \/ v = I64MaxDigits
          \/ \E i \in 1..19 : /\ \A j \in 1..(i - 1) : v[j] = I64MaxDigits[j]
                              /\ v[i] < I64MaxDigits[i]

(* C10: at a digit, next_token consumes the maximal run of decimal digits and
   returns Int(v), v the value of the run, whenever v fits a signed 64-bit
   integer; otherwise the call fails (panics) and returns no Int token. *)
IntIsExactOrFails ==
    [][(LexerNextToken /\ lexer.character \in Digits) =>
          LET end == RunEnd(lexer.position, Digits)
              run == SubSeq(input, lexer.position + 1, end)
          IN  \E k \in 0..(Len(run) - 1) :
                 /\ DropsLeadingZeros(run, k)
                 /\ IF FitsI64(NumeralOf(run, k))
                    THEN /\ token' = Token("Int", NumeralOf(run, k))
                         /\ lexer'.position = end
                         /\ ~panicked'
                    ELSE /\ panicked'
                         /\ token'.kind # "Int"]_vars

\* i64::MAX written with a leading zero was returned as Int(i64::MAX)
IntMaxReturned ==
    /\ token = Token("Int", I64MaxDigits)
    /\ input[1] = 48
    /\ ~panicked

----------------------------------------------------------------------------
InSkipLoop == pc \in {"let_skip", "return_skip"}

(* C1: Parser::new followed by parse_program terminates and returns, without
   looping forever: in particular the loop of a `let` or `return` statement
   that skips to the next `;`, once entered, is left again, also when no `;`
   comes before the end of the input. *)
SkipLoopReturns == InSkipLoop ~> ~InSkipLoop

----------------------------------------------------------------------------
\* the statement parse_let_statement builds for a well-formed `let` of the inputs
ExpectedLet(st) == LetStatement(WordBytes(st[2]), Placeholder)

\* the statements of the input after the first one
LaterStatements == [i \in 1..(Len(source) - 1) |-> ExpectedLet(source[i + 1])]

\* sub appears in sq, in order
IsSubsequence(sub, sq) ==
    \E f \in [1..Len(sub) -> 1..Len(sq)] :
        /\ \A i \in 1..Len(sub) : sq[f[i]] = sub[i]
        /\ \A i, j \in 1..Len(sub) : i < j => f[i] < f[j]

(* C2: a malformed `let` followed by valid statements appends exactly one error
   (the error list has length 1) and every later valid statement appears in
   Program.statements, in source order. *)
MalformedLetGivesOneError ==
    ( /\ pc = "done"
      /\ Len(source) >= 2
      /\ source[1] \in MalformedLets
      /\ \A i \in 2..Len(source) : source[i] \in WellFormedLets )
    => /\ Len(errors) = 1
       /\ IsSubsequence(LaterStatements, statements)

----------------------------------------------------------------------------
\* the precedence levels as the specification lists them, lowest first
LevelOf(op) ==
    CASE op \in {"==", "!="} -> 1
      [] op \in {"<", ">"} -> 2
      [] op \in {"+", "-"} -> 3
      [] op \in {"*", "/"} -> 4

KindOf(op) ==
    CASE op = "==" -> "Equal"    [] op = "!=" -> "NotEqual"
      [] op = "<" -> "LessThan"  [] op = ">" -> "GreaterThan"
      [] op = "+" -> "Plus"      [] op = "-" -> "Minus"
      [] op = "*" -> "Asterisk"  [] op = "/" -> "Slash"

\* the tree of an operand word: a unary operator applies to the operand after it
TreeOf(w) ==
    CASE w = "a" -> Identifier(<< 97 >>)
      [] w = "5" -> Integer(<< 5 >>)
      [] w = "-a" -> Prefix("Minus", Identifier(<< 97 >>))
      [] w = "!a" -> Prefix("Bang", Identifier(<< 97 >>))
      [] w = "!-a" -> Prefix("Bang", Prefix("Minus", Identifier(<< 97 >>)))

\* the input is one expression x1 op1 ... xn and parse_program has returned
ParsedChainOf(n) ==
    /\ pc = "done"
    /\ Len(source) = 1
    /\ Len(source[1]) = 2 * n - 1
    /\ \A i \in 1..Len(source[1]) :
          IF i % 2 = 1 THEN source[1][i] \in OperandWords \cup {"!-a"}
          ELSE source[1][i] \in OperatorWords

ParsedChainOfThree == ParsedChainOf(3)

LeftNested(c) ==
    Infix(Infix(TreeOf(c[1]), KindOf(c[2]), TreeOf(c[3])), KindOf(c[4]), TreeOf(c[5]))

RightNested(c) ==
    Infix(TreeOf(c[1]), KindOf(c[2]), Infix(TreeOf(c[3]), KindOf(c[4]), TreeOf(c[5])))

(* C4: operators of equal precedence associate to the left: x1 op1 x2 op2 x3
   with op1 and op2 of the same level parses to Infix(Infix(x1, op1, x2), op2, x3). *)
EqualPrecedenceAssociatesLeft ==
    (ParsedChainOfThree /\ LevelOf(source[1][2]) = LevelOf(source[1][4]))
    => /\ statements = << ExpressionStatement(LeftNested(source[1])) >>
       /\ errors = << >>

\* `a + 5 - a` has been parsed
ParsedSumThenDifference ==
    /\ pc = "done"
    /\ source = << <<"a", "+", "5", "-", "a">> >>
    /\ Len(statements) = 1

(* C5: between two adjacent operators the operand goes to the operator of the
   higher level, whichever comes first, and a unary `-` or `!` applies only to
   the operand immediately after it. *)
PrecedenceDecidesNesting ==
    /\ (ParsedChainOfThree /\ LevelOf(source[1][2]) > LevelOf(source[1][4]))
       => /\ statements = << ExpressionStatement(LeftNested(source[1])) >>
          /\ errors = << >>
    /\ (ParsedChainOfThree /\ LevelOf(source[1][2]) < LevelOf(source[1][4]))
       => /\ statements = << ExpressionStatement(RightNested(source[1])) >>
          /\ errors = << >>
    /\ ParsedChainOf(2)
       => /\ statements = << ExpressionStatement(Infix(TreeOf(source[1][1]),
                                                       KindOf(source[1][2]),
                                                       TreeOf(source[1][3]))) >>
          /\ errors = << >>
    /\ ParsedChainOf(1)
       => /\ statements = << ExpressionStatement(TreeOf(source[1][1])) >>
          /\ errors = << >>

\* `-a * 5 + !a` has been parsed: a unary operator before a higher operator
\* before a lower one
ParsedUnaryProductSum ==
    /\ pc = "done"
    /\ source = << <<"-a", "*", "5", "+", "!a">> >>
    /\ Len(statements) = 1

----------------------------------------------------------------------------
(* C6: N well-formed `let <identifier> = <expression>;` statements give exactly
   N statements, the i-th a LetStatement binding the i-th name, and no error. *)
LetsParseInOrder ==
    ( /\ pc = "done"
      /\ Len(source) >= 1
      /\ \A i \in 1..Len(source) : source[i] \in WellFormedLets )
    => /\ errors = << >>
       /\ statements = [i \in 1..Len(source) |-> ExpectedLet(source[i])]

\* `let x = 5; let y = 10; let foobar = -a + 838383;` has been parsed
ParsedThreeLets ==
    /\ pc = "done"
    /\ source = << <<"let", "x", "=", "5", ";">>, <<"let", "y", "=", "10", ";">>,
                   <<"let", "foobar", "=", "-a", "+", "838383", ";">> >>
    /\ Len(statements) = 3

----------------------------------------------------------------------------
\* the binding of name seen from the nested scope: its own, else the enclosing one
ChainLookup(name) ==
    IF name \in DOMAIN inner.store THEN Some(inner.store[name])
    ELSE IF name \in DOMAIN outer.store THEN Some(outer.store[name])
    ELSE None

(* C7: get on the child environment returns the child's own binding or else the
   binding of the enclosing environment, and set on the child leaves every
   binding of the enclosing environment unchanged. *)
ChildGetWalksOutward ==
    [][ /\ SetInner => outer' = outer
        /\ pc' = "env_inner" => \A name \in Names : get(inner', name) = ChainLookup(name)'
      ]_vars

----------------------------------------------------------------------------
\* the index of the first `"` after the one at index open, or Len(input) if
\* no `"` follows
ClosingQuote(open) ==
    LET S == {j \in (open + 1)..(Len(input) - 1) : input[j + 1] = 34}
    IN  IF S = {} THEN Len(input) ELSE CHOOSE j \in S : \A k \in S : j <= k

(* C11: at a `"`, next_token does not fail and returns a String token whose
   content is exactly the bytes between the opening quote and the next `"`,
   lexing resuming after that quote; with no closing quote the content runs to
   the end of the input and the next call returns Eof. *)
StringIsBytesBetweenQuotes ==
    [][(LexerNextToken /\ ByteAt(FirstOutside({32, 9, 10, 12, 13})) = 34) =>
          LET open == FirstOutside({32, 9, 10, 12, 13})
              close == ClosingQuote(open)
          IN  /\ ~panicked'
              /\ token' = Token("String", SubSeq(input, open + 2, close))
              /\ IF close < Len(input) THEN lexer'.position = close + 1
                 ELSE next_token(lexer').token = Tok("Eof")]_vars

----------------------------------------------------------------------------
\* is_truthy has returned for the object
TruthyReturned == pc = "object" /\ object # NoObject

(* C12: is_truthy returns false exactly for Boolean(false) and Null, and true
   for every other Object: Integer(0), Boolean(true), Error, Function, and
   ReturnValue whatever it wraps. *)
FalseOnlyForFalseAndNull ==
    TruthyReturned =>
        IF object.kind = "Null" THEN result = FALSE
        ELSE IF object.kind = "Boolean" THEN result = object.value
        ELSE result = TRUE

\* is_truthy has returned true for a ReturnValue that wraps Boolean(false)
TruthyReturnValueOfFalse ==
    /\ TruthyReturned
    /\ object = ObjectReturnValue(ObjectBoolean(FALSE))
    /\ result = TRUE

----------------------------------------------------------------------------
(* C13: a call of expect_peek(kind) whose kind differs from the peeked token's
   yields one error message naming the expected kind and the offending token
   and leaves current_token, peeked_token and the lexer as they were; a call
   whose kind matches returns Ok with the old peeked token as current_token
   and the lexer's next token as peeked_token. *)
ExpectPeekChecksThenAdvances ==
    [][ExpectPeek =>
          IF peeked_token.kind # result'.kind
          THEN /\ result'.status = "Err"
               /\ result'.val.expected = result'.kind
               /\ result'.val.got = peeked_token
               /\ UNCHANGED << current_token, peeked_token, lexer >>
          ELSE /\ result'.status = "Ok"
               /\ result'.val = << >>
               /\ current_token' = peeked_token
               /\ peeked_token' = next_token(lexer).token
               /\ lexer' = next_token(lexer).lexer]_vars

----------------------------------------------------------------------------
\* the words of a statement without its trailing `;`
ExpressionOf(st) == IF st[Len(st)] = ";" THEN SubSeq(st, 1, Len(st) - 1) ELSE st

\* the tree of an expression of one to three operands parsed alone
TreeAlone(c) ==
    IF Len(c) = 1 THEN TreeOf(c[1])
    ELSE IF Len(c) = 3 THEN Infix(TreeOf(c[1]), KindOf(c[2]), TreeOf(c[3]))
    ELSE IF LevelOf(c[2]) >= LevelOf(c[4]) THEN LeftNested(c)
    ELSE RightNested(c)

(* C14: a sequence of well-formed expression statements separated by `;`, the
   last one with or without `;`, yields one ExpressionStatement per
   expression, in order, with no error, and each tree is the tree of that
   expression parsed alone: no `;` and nothing after it is folded into an
   expression. *)
OneStatementPerExpression ==
    (pc = "done" /\ source \in SeparatedSources)
    => /\ statements =
            [i \in 1..Len(source) |-> ExpressionStatement(TreeAlone(ExpressionOf(source[i])))]
       /\ errors = << >>

\* `a + 5 ; -a * 5` has been parsed
ParsedSumThenUnaryProduct ==
    /\ pc = "done"
    /\ source = << <<"a", "+", "5", ";">>, <<"-a", "*", "5">> >>
    /\ Len(statements) = 2

----------------------------------------------------------------------------
(* C15: when the byte the token starts at is `=` (or `!`) and the next byte is
   `=`, next_token returns one Equal (or NotEqual) and the cursor is past both
   bytes; when the next byte is anything else, or the input ends there, it
   returns Assign (or Bang) and the cursor is past one byte only, so that the
   following byte starts the next token. *)
OneByteOfLookahead ==
    [][(LexerNextToken /\ ByteAt(FirstOutside({32, 9, 10, 12, 13})) \in {61, 33}) =>
          LET start == FirstOutside({32, 9, 10, 12, 13})
              double == ByteAt(start + 1) = 61
          IN  /\ ~panicked'
              /\ token' = IF ByteAt(start) = 61
                          THEN (IF double THEN Tok("Equal") ELSE Tok("Assign"))
                          ELSE (IF double THEN Tok("NotEqual") ELSE Tok("Bang"))
              /\ lexer'.position = IF double THEN start + 2 ELSE start + 1]_vars

\* `===` has given Equal, then Assign
EqualThenAssign ==
    /\ input = << 61, 61, 61 >>
    /\ calls = 2
    /\ token = Tok("Assign")
    /\ lexer.position = 3

----------------------------------------------------------------------------
(* C16: every call of next_token that returns a token other than Eof leaves
   the cursor strictly further into the input than it was before the call. *)
EveryTokenAdvancesCursor ==
    [][(LexerNextToken /\ ~panicked' /\ token'.kind # "Eof")
          => lexer'.position > lexer.position]_vars

====
